---- MODULE Spec2Model ----
(***************************************************************************)
(* A model of ptpython/completer.py: PythonCompleter (the aggregator) and  *)
(* DictionaryCompleter (the structural generator).                         *)
(*                                                                         *)
(* Text is a TLA+ string (a sequence of characters); Python objects are    *)
(* identities (Ids) into a fixed heap, and an environment maps names to    *)
(* identities, as a Python dict of references does.                        *)
(***************************************************************************)
EXTENDS Integers, Sequences, FiniteSets, TLC

(***************************************************************************)
(* Characters and strings                                                  *)
(***************************************************************************)
Ch(t, i) == SubSeq(t, i, i)

CharsOf(s) == {Ch(s, i) : i \in 1..Len(s)}

DigitChars == "0123456789"

\* The characters of the model's alphabet in code point order (str comparison
\* in sorted() is by code point).
CodePointOrder == "\n !\"#'(),.0123456789:ABCDEFGHIJKLMNOPQRSTUVWXYZ[\\]_abcdefghijklmnopqrstuvwxyz{}~"

Digits == CharsOf(DigitChars)
Letters == CharsOf("ABCDEFGHIJKLMNOPQRSTUVWXYZabcdefghijklmnopqrstuvwxyz")
\* [a-zA-Z_]
IsNameStart(c) == c \in Letters \cup {"_"}
\* [a-zA-Z0-9_]
IsNameChar(c) == c \in Letters \cup Digits \cup {"_"}
\* \s
IsSpace(c) == c \in {" ", "\t", "\n", "\r", "\f"}
\* str.isalnum() of one character
IsAlnum(c) == c \in Letters \cup Digits

Ord(c) == CHOOSE i \in 1..Len(CodePointOrder) : Ch(CodePointOrder, i) = c

\* str.startswith
StartsWith(s, p) == Len(p) <= Len(s) /\ SubSeq(s, 1, Len(p)) = p

\* a in b, for strings
IsSubstring(a, b) == \E i \in 1..(Len(b) + 1) :
    i + Len(a) - 1 <= Len(b) /\ SubSeq(b, i, i + Len(a) - 1) = a

\* str.isdigit(): non-empty and every character a digit
IsDigitStr(s) == Len(s) > 0 /\ \A i \in 1..Len(s) : Ch(s, i) \in Digits

\* str < str, by code point
RECURSIVE StrLess(_, _)
StrLess(a, b) ==
    IF Len(b) = 0 THEN FALSE
    ELSE IF Len(a) = 0 THEN TRUE
    ELSE IF Head(a) = Head(b) THEN StrLess(Tail(a), Tail(b))
    ELSE Ord(Head(a)) < Ord(Head(b))

\* str(int), repr(int) for n >= 0
RECURSIVE DecStr(_)
DecStr(n) ==
    IF n < 10 THEN Ch(DigitChars, n + 1)
    ELSE DecStr(n \div 10) \o Ch(DigitChars, (n % 10) + 1)

RECURSIVE DecVal(_)
DecVal(s) ==
    IF Len(s) = 0 THEN 0
    ELSE 10 * DecVal(SubSeq(s, 1, Len(s) - 1))
         + ((Ord(Ch(s, Len(s)))) - Ord("0"))

\* str.strip(), str.lstrip()
RECURSIVE LStrip(_)
LStrip(s) == IF Len(s) > 0 /\ IsSpace(Head(s)) THEN LStrip(Tail(s)) ELSE s

RECURSIVE RStrip(_)
RStrip(s) ==
    IF Len(s) > 0 /\ IsSpace(Ch(s, Len(s)))
    THEN RStrip(SubSeq(s, 1, Len(s) - 1)) ELSE s

Strip(s) == LStrip(RStrip(s))

Min(a, b) == IF a < b THEN a ELSE b

\* t[a-1:b], clipped to the text as a Python slice is
Slice(t, a, b) == IF a > Min(b, Len(t)) THEN "" ELSE SubSeq(t, a, Min(b, Len(t)))

(***************************************************************************)
(* The objects of a session.  Each identity names one Python object; Heap  *)
(* gives its type and contents.  The universe holds the shapes the         *)
(* completer distinguishes: int, str, list, tuple, dict, None, and opaque  *)
(* objects whose __repr__ / __str__ may raise.                             *)
(***************************************************************************)
IntObj(n) == [kind |-> "int", n |-> n]
StrObj(s) == [kind |-> "str", s |-> s]
ListObj(items) == [kind |-> "list", items |-> items]
TupleObj(items) == [kind |-> "tuple", items |-> items]
\* items: the (key, value) pairs in iteration (insertion) order
DictObj(items) == [kind |-> "dict", items |-> items]
\* attrs: (name, value) pairs of the instance; repr / str: the text, or
\* Raises when __repr__ / __str__ raises
Opaque(attrs, truthy, repr, str) ==
    [kind |-> "object", attrs |-> attrs, truthy |-> truthy, repr |-> repr, str |-> str]

Raises == [ok |-> FALSE, s |-> ""]
Returns(s) == [ok |-> TRUE, s |-> s]

\* Length of the list bound to `big`: one more than the index cap of
\* _get_item_lookup_completions.
BigLen == 1001

Heap ==
    [ None   |-> [kind |-> "none"],
      i0     |-> IntObj(0),
      i1     |-> IntObj(1),
      i2     |-> IntObj(2),
      i7     |-> IntObj(7),
      i10    |-> IntObj(10),
      i20    |-> IntObj(20),
      i30    |-> IntObj(30),
      sa     |-> StrObj("a"),
      sb     |-> StrObj("b"),
      sab    |-> StrObj("ab"),
      sbb    |-> StrObj("bb"),
      s1     |-> StrObj("1"),
      xs     |-> ListObj(<<"i10", "i20", "i30">>),
      empty  |-> ListObj(<<>>),
      nested |-> ListObj(<<"xs", "empty">>),
      tp     |-> TupleObj(<<"d", "sa">>),
      l12    |-> ListObj([i \in 1..12 |-> "i7"]),
      lbad   |-> ListObj(<<"i10", "vbad", "i30">>),
      big    |-> ListObj([i \in 1..BigLen |-> "i7"]),
      d      |-> DictObj(<< <<"sa", "i1">>, <<"sbb", "i2">> >>),
      dn     |-> DictObj(<< <<"i1", "sa">>, <<"s1", "sb">>, <<"i10", "xs">> >>),
      dv     |-> DictObj(<< <<"sa", "vbad">>, <<"sab", "i1">> >>),
      dk     |-> DictObj(<< <<"kstr", "i1">>, <<"sab", "i2">> >>),
      dkbad  |-> DictObj(<< <<"sa", "i1">>, <<"kbad", "i2">>, <<"sab", "i2">> >>),
      dempty |-> DictObj(<<>>),
      \* repr() raises; str() falls back on repr() and raises too
      kbad   |-> Opaque(<<>>, TRUE, Raises, Raises),
      \* __str__ is defined, __repr__ raises
      kstr   |-> Opaque(<<>>, TRUE, Raises, Returns("ab")),
      vbad   |-> Opaque(<<>>, TRUE, Raises, Raises),
      \* an object exposing exactly the names foo, _bar, __baz__, Zed
      o      |-> Opaque(<< <<"foo", "i1">>, <<"__baz__", "i2">>, <<"_bar", "d">>,
                           <<"Zed", "xs">> >>,
                        TRUE, Returns("<o>"), Returns("<o>")),
      \* an object that is falsy (__bool__ returns False, or __len__ 0)
      falsy  |-> Opaque(<< <<"foo", "i1">> >>, FALSE, Returns("<falsy>"), Returns("<falsy>")),
      \* a bound method or builtin function
      method |-> Opaque(<<>>, TRUE, Returns("<built-in method>"), Returns("<built-in method>")),
      \* the builtins module that eval() binds to __builtins__
      builtins |-> Opaque(<< <<"len", "method">>, <<"open", "method">>,
                             <<"print", "method">> >>, TRUE,
                          Returns("<module 'builtins' (built-in)>"),
                          Returns("<module 'builtins' (built-in)>")) ]

Ids == DOMAIN Heap

Kind(v) == Heap[v].kind

IsListOrTuple(v) == Kind(v) \in {"list", "tuple"}

\* len(v) for a container
Length(v) == Len(Heap[v].items)

\* bool(v)
Truthy(v) ==
    CASE Kind(v) = "none" -> FALSE
      [] Kind(v) = "int" -> Heap[v].n # 0
      [] Kind(v) = "str" -> Len(Heap[v].s) > 0
      [] Kind(v) \in {"list", "tuple", "dict"} -> Length(v) > 0
      [] OTHER -> Heap[v].truthy

\* The key of a subscription: the object a literal denotes (a fresh object,
\* id = "") or the object a name is bound to.
IntKey(n) == [kind |-> "int", n |-> n, s |-> "", id |-> ""]
StrKey(s) == [kind |-> "str", n |-> 0, s |-> s, id |-> ""]
ObjKey(v) ==
    [kind |-> Kind(v),
     n |-> IF Kind(v) = "int" THEN Heap[v].n ELSE 0,
     s |-> IF Kind(v) = "str" THEN Heap[v].s ELSE "",
     id |-> v]

\* k == key (and equal hashes): dict key equality against the stored key k
KeyEq(k, key) ==
    \/ k = key.id
    \/ Kind(k) = "int" /\ key.kind = "int" /\ Heap[k].n = key.n
    \/ Kind(k) = "str" /\ key.kind = "str" /\ Heap[k].s = key.s

\* open + text + close when the parts could be formatted
Enclosed(open, r, close) ==
    IF r.ok THEN Returns(open \o r.s \o close) ELSE Raises

\* "k: v" of a dict item
ItemRepr(k, w) ==
    IF k.ok /\ w.ok THEN Returns(k.s \o ": " \o w.s) ELSE Raises

\* one, or one + ", " + rest when more follows
JoinTwo(one, rest, last) ==
    IF ~one.ok \/ ~rest.ok THEN Raises
    ELSE IF last THEN one
    ELSE Returns(one.s \o ", " \o rest.s)

RECURSIVE JoinReprs(_, _, _)
RECURSIVE ReprOf(_)
\* repr(v): Returns(text), or Raises
ReprOf(v) ==
    CASE Kind(v) = "none" -> Returns("None")
      [] Kind(v) = "int" -> Returns(DecStr(Heap[v].n))
      [] Kind(v) = "str" -> Returns("'" \o Heap[v].s \o "'")
      [] Kind(v) = "list" -> Enclosed("[", JoinReprs(Heap[v].items, 1, FALSE), "]")
      [] Kind(v) = "tuple" ->
            Enclosed("(", JoinReprs(Heap[v].items, 1, FALSE),
                     IF Length(v) = 1 THEN ",)" ELSE ")")
      [] Kind(v) = "dict" -> Enclosed("{", JoinReprs(Heap[v].items, 1, TRUE), "}")
      [] OTHER -> Heap[v].repr

\* ", ".join(repr(x) for x in items[i:]); a dict item is repr(k): repr(v)
JoinReprs(items, i, pairs) ==
    IF i > Len(items) THEN Returns("")
    ELSE JoinTwo(IF pairs THEN ItemRepr(ReprOf(items[i][1]), ReprOf(items[i][2]))
                 ELSE ReprOf(items[i]),
                 JoinReprs(items, i + 1, pairs),
                 i = Len(items))

\* str(v): the text for a str, __str__ for an opaque object, else repr(v)
StrOf(v) ==
    CASE Kind(v) = "str" -> Returns(Heap[v].s)
      [] Kind(v) = "object" -> Heap[v].str
      [] OTHER -> ReprOf(v)

\* The attribute names of the builtin types (the part of dir() the model keeps).
TypeNames(kind) ==
    CASE kind = "none" -> {"__bool__", "__class__", "__doc__"}
      [] kind = "int" -> {"__abs__", "__class__", "bit_length", "real", "imag"}
      [] kind = "str" -> {"__class__", "__len__", "lower", "upper"}
      [] kind = "list" -> {"__class__", "__len__", "append", "sort"}
      [] kind = "tuple" -> {"__class__", "__len__", "count", "index"}
      [] kind = "dict" -> {"__class__", "__len__", "items", "keys"}
      [] OTHER -> {}

\* dir(v), as a set: dir() returns it as a list without duplicates
DirNames(v) ==
    IF Kind(v) = "object"
    THEN {Heap[v].attrs[i][1] : i \in 1..Len(Heap[v].attrs)}
    ELSE TypeNames(Kind(v))

Found(val) == [ok |-> TRUE, val |-> val]
NotFound == [ok |-> FALSE, val |-> "None"]

\* The value bound to an attribute name of an object
AttrValue(v, name) ==
    Heap[v].attrs[CHOOSE i \in 1..Len(Heap[v].attrs) : Heap[v].attrs[i][1] = name][2]

\* The value stored in a dict under the key equal to key
DictValue(v, key) ==
    Heap[v].items[CHOOSE i \in 1..Len(Heap[v].items) : KeyEq(Heap[v].items[i][1], key)][2]

\* getattr(v, name): [ok, val]; ok = FALSE is AttributeError
GetAttr(v, name) ==
    IF name \notin DirNames(v) THEN NotFound
    ELSE IF Kind(v) = "object"
    THEN Found(AttrValue(v, name))
    ELSE IF Kind(v) = "int" /\ name = "real" THEN Found(v)
    ELSE IF Kind(v) = "int" /\ name = "imag" THEN Found("i0")
    ELSE Found("method")

\* v[key]: [ok, val]; ok = FALSE is IndexError / KeyError / TypeError
GetItem(v, key) ==
    CASE IsListOrTuple(v) ->
            IF key.kind = "int" /\ key.n < Length(v)
            THEN Found(Heap[v].items[key.n + 1])
            ELSE NotFound
      [] Kind(v) = "dict" ->
            IF \E i \in 1..Length(v) : KeyEq(Heap[v].items[i][1], key)
            THEN Found(DictValue(v, key))
            ELSE NotFound
      [] Kind(v) = "str" ->
            IF key.kind = "int" /\ key.n < Len(Heap[v].s)
               /\ \E x \in Ids : Heap[x] = StrObj(Ch(Heap[v].s, key.n + 1))
            THEN Found(CHOOSE x \in Ids : Heap[x] = StrObj(Ch(Heap[v].s, key.n + 1)))
            ELSE NotFound
      [] OTHER -> NotFound

(***************************************************************************)
(* DictionaryCompleter.__init__: the patterns.                             *)
(*                                                                         *)
(* `expression` is a regular language; ExprStep is its automaton:          *)
(*   varname \s* ( \s* \. \s* varname \s* | \s* \[ [^\[\]]+ \] \s* )*      *)
(***************************************************************************)
ExprStep(st, c) ==
    CASE st = "start" -> IF IsNameStart(c) THEN "name" ELSE "dead"
      [] st = "name" ->
            IF IsNameChar(c) THEN "name"
            ELSE IF IsSpace(c) THEN "after"
            ELSE IF c = "." THEN "dot"
            ELSE IF c = "[" THEN "open"
            ELSE "dead"
      [] st = "after" ->
            IF IsSpace(c) THEN "after"
            ELSE IF c = "." THEN "dot"
            ELSE IF c = "[" THEN "open"
            ELSE "dead"
      [] st = "dot" ->
            IF IsSpace(c) THEN "dot"
            ELSE IF IsNameStart(c) THEN "name"
            ELSE "dead"
      [] st = "open" -> IF c \in {"[", "]"} THEN "dead" ELSE "key"
      [] st = "key" ->
            IF c = "]" THEN "after"
            ELSE IF c = "[" THEN "dead"
            ELSE "key"
      [] OTHER -> "dead"

\* The positions j such that t[i..j] matches `expression`, the automaton
\* being in state st before t[pos].
RECURSIVE ExprEndsFrom(_, _, _)
ExprEndsFrom(t, pos, st) ==
    IF st = "dead" THEN {}
    ELSE (IF st \in {"name", "after"} THEN {pos - 1} ELSE {})
         \cup (IF pos > Len(t) THEN {}
               ELSE ExprEndsFrom(t, pos + 1, ExprStep(st, Ch(t, pos))))

ExprEnds(t, i) == ExprEndsFrom(t, i, "start")

\* The least element of a set of positions, 0 for the empty set
FirstOf(S) == IF S = {} THEN 0 ELSE CHOOSE i \in S : \A j \in S : i <= j

\* The greatest element of a set of positions, 0 for the empty set
LastOf(S) == IF S = {} THEN 0 ELSE CHOOSE i \in S : \A j \in S : j <= i

\* re.search of a pattern `expression REST $` where REST starts at position
\* k + 1: the leftmost i such that t[i..k] matches `expression`, or 0.
ExprStartBefore(t, k) == FirstOf({i \in 1..k : k \in ExprEnds(t, i)})

NoMatch == [matched |-> FALSE, start |-> 0, object_var |-> "", key |-> ""]

\* The match that starts at i (none when i = 0) with the groups
\* t[i..k] and key
MatchFrom(t, i, k, key) ==
    IF i = 0 THEN NoMatch
    ELSE [matched |-> TRUE, start |-> i, object_var |-> SubSeq(t, i, k),
          key |-> key]

\* expression_pattern.search(text): `expression $`
ExpressionMatch(t) == MatchFrom(t, ExprStartBefore(t, Len(t)), Len(t), "")

\* The item lookup whose open bracket is at position k (0: the text has no
\* bracket)
ItemLookupAt(t, k) ==
    IF k = 0 \/ Ch(t, k) # "[" THEN NoMatch
    ELSE MatchFrom(t, ExprStartBefore(t, k - 1), k - 1,
                   LStrip(SubSeq(t, k + 1, Len(t))))

\* item_lookup_pattern.search(text): `expression \[ \s* ([^\[\]]*) $`
ItemLookupMatch(t) ==
    ItemLookupAt(t, LastOf({k \in 1..Len(t) : Ch(t, k) \in {"[", "]"}}))

\* The length of the longest run of [a-zA-Z0-9_] ending at position n of t
RECURSIVE NameRunBack(_, _)
NameRunBack(t, n) ==
    IF n >= 1 /\ IsNameChar(Ch(t, n)) THEN 1 + NameRunBack(t, n - 1) ELSE 0

RECURSIVE SpaceRunBack(_, _)
SpaceRunBack(t, n) ==
    IF n >= 1 /\ IsSpace(Ch(t, n)) THEN 1 + SpaceRunBack(t, n - 1) ELSE 0

\* `expression \.` ending at position k of t, followed by key: the match
AttributeLookupAt(t, k, key) ==
    IF k < 1 \/ Ch(t, k) # "." THEN NoMatch
    ELSE MatchFrom(t, ExprStartBefore(t, k - 1), k - 1, key)

\* \s* ([a-zA-Z0-9_]*) ending at position n of t, the name being f long
AttributeKeyAt(t, n, f) ==
    AttributeLookupAt(t, n - f - SpaceRunBack(t, n - f), SubSeq(t, n - f + 1, n))

\* `expression \. \s* ([a-zA-Z0-9_]*)` ending at position n of t
AttributeMatchEndingAt(t, n) == AttributeKeyAt(t, n, NameRunBack(t, n))

\* The match the search finds first: the one that starts leftmost
LeftmostOf(atEnd, beforeNewline) ==
    IF atEnd.matched /\ (~beforeNewline.matched \/ atEnd.start <= beforeNewline.start)
    THEN atEnd ELSE beforeNewline

\* attribute_lookup_pattern.search(text): `expression \. \s* ([a-zA-Z0-9_]*) $`;
\* $ matches at the end of the text and before a newline that ends it.
AttributeLookupMatch(t) ==
    IF Len(t) > 0 /\ Ch(t, Len(t)) = "\n"
    THEN LeftmostOf(AttributeMatchEndingAt(t, Len(t)),
                    AttributeMatchEndingAt(t, Len(t) - 1))
    ELSE AttributeMatchEndingAt(t, Len(t))

RECURSIVE NameRun(_, _)
\* The length of the longest run of [a-zA-Z0-9_] starting at position i of t
NameRun(t, i) ==
    IF i <= Len(t) /\ IsNameChar(Ch(t, i)) THEN 1 + NameRun(t, i + 1) ELSE 0

RECURSIVE SpaceRun(_, _)
SpaceRun(t, i) ==
    IF i <= Len(t) /\ IsSpace(Ch(t, i)) THEN 1 + SpaceRun(t, i + 1) ELSE 0

\* The position of the colon of `\s* :` at position i of t, or 0
ColonAfter(t, i) ==
    IF Slice(t, i + SpaceRun(t, i), i + SpaceRun(t, i)) = ":"
    THEN i + SpaceRun(t, i) ELSE 0

NoForLoop == [matched |-> FALSE, varname |-> "", expression |-> "", last |-> 0]

\* `expression \s* :` from position q on, the longest expression first
ForLoopExpression(t, varname, q, j) ==
    IF j = 0 THEN NoForLoop
    ELSE [matched |-> TRUE, varname |-> varname, expression |-> SubSeq(t, q, j),
          last |-> ColonAfter(t, j + 1)]

\* `in \s+ expression \s* :` from position e on
ForLoopIn(t, varname, e, s3) ==
    IF Slice(t, e, e + 1) # "in" \/ s3 = 0 THEN NoForLoop
    ELSE ForLoopExpression(t, varname, e + 2 + s3,
            LastOf({j \in ExprEnds(t, e + 2 + s3) : ColonAfter(t, j + 1) # 0}))

\* `\s+ in ...` from position c on, after the name t[b..c-1]
ForLoopAfterName(t, b, c, s2) ==
    IF c = b \/ s2 = 0 THEN NoForLoop
    ELSE ForLoopIn(t, SubSeq(t, b, c - 1), c + s2, SpaceRun(t, c + s2 + 2))

\* `([a-zA-Z0-9_]+) ...` from position b on, after `for \s+`
ForLoopName(t, a, b) ==
    IF a = b THEN NoForLoop
    ELSE ForLoopAfterName(t, b, b + NameRun(t, b), SpaceRun(t, b + NameRun(t, b)))

\* for_loop_pattern matched at position p of t:
\*   for \s+ ([a-zA-Z0-9_]+) \s+ in \s+ expression \s* :
\* [matched, varname, expression, last]; last is the position of the colon.
ForLoopMatchAt(t, p) ==
    IF Slice(t, p, p + 2) # "for" THEN NoForLoop
    ELSE ForLoopName(t, p + 3, p + 3 + SpaceRun(t, p + 3))

\* for_loop_pattern.finditer(text): the non-overlapping matches from position
\* p on, in text order, as (varname, expression) pairs
RECURSIVE ForLoopMatches(_, _)
RECURSIVE ForLoopMatchesWith(_, _, _)
ForLoopMatches(t, p) ==
    IF p > Len(t) THEN <<>> ELSE ForLoopMatchesWith(t, p, ForLoopMatchAt(t, p))

ForLoopMatchesWith(t, p, m) ==
    IF m.matched
    THEN <<[varname |-> m.varname, expression |-> m.expression]>>
         \o ForLoopMatches(t, m.last + 1)
    ELSE ForLoopMatches(t, p + 1)

(***************************************************************************)
(* ast.literal_eval and eval, on the texts the patterns let through.       *)
(***************************************************************************)
\* A quoted string literal without escapes: q body q
IsStrLiteral(t) ==
    /\ Len(t) >= 2
    /\ Head(t) \in {"'", "\""}
    /\ Ch(t, Len(t)) = Head(t)
    /\ \A i \in 2..(Len(t) - 1) : Ch(t, i) \notin {Head(t), "\\", "\n"}

\* A decimal integer literal (a leading zero is a SyntaxError unless all
\* digits are zero)
IsIntLiteral(t) ==
    /\ IsDigitStr(t)
    /\ (Len(t) > 1 /\ Head(t) = "0") => \A i \in 1..Len(t) : Ch(t, i) = "0"

\* The value of the literal t, t having no trailing whitespace
LiteralOf(t) ==
    IF IsStrLiteral(t)
    THEN [ok |-> TRUE, isstr |-> TRUE, s |-> SubSeq(t, 2, Len(t) - 1)]
    ELSE IF IsIntLiteral(t) \/ t \in {"None", "True", "False"}
    THEN [ok |-> TRUE, isstr |-> FALSE, s |-> t]
    ELSE [ok |-> FALSE, isstr |-> FALSE, s |-> ""]

\* ast.literal_eval(k): [ok, isstr, s]; ok = FALSE is SyntaxError or
\* ValueError.  Literals: integers, quoted strings, None / True / False.
LiteralEval(k) == LiteralOf(RStrip(k))

\* Reserved words: a SyntaxError where a name is expected
PyKeywords ==
    {"and", "as", "class", "def", "del", "elif", "else", "for", "from", "if",
     "import", "in", "is", "not", "or", "pass", "with", "while"}

\* Name resolution of eval(src, globals, locals): locals, then globals, then
\* the builtins
LookupName(name, G, L) ==
    IF name = "None" THEN Found("None")
    ELSE IF name \in PyKeywords THEN NotFound
    ELSE IF name \in DOMAIN L THEN Found(L[name])
    ELSE IF name \in DOMAIN G THEN Found(G[name])
    ELSE GetAttr("builtins", name)

\* Whitespace that may separate tokens outside brackets (a newline ends the
\* expression and is a SyntaxError)
RECURSIVE InlineSpaceRun(_, _)
InlineSpaceRun(t, i) ==
    IF i <= Len(t) /\ Ch(t, i) \in {" ", "\t", "\f"}
    THEN 1 + InlineSpaceRun(t, i + 1) ELSE 0

NoKey == [ok |-> FALSE, key |-> IntKey(0)]

\* The subscript key a looked up name stands for
NameKey(r) == IF r.ok THEN [ok |-> TRUE, key |-> ObjKey(r.val)] ELSE NoKey

\* The key the stripped subscript text t stands for, lit being its value as a
\* literal
KeyOf(t, lit, G, L) ==
    IF lit.ok /\ lit.isstr THEN [ok |-> TRUE, key |-> StrKey(lit.s)]
    ELSE IF lit.ok /\ IsIntLiteral(t) THEN [ok |-> TRUE, key |-> IntKey(DecVal(t))]
    ELSE IF Len(t) > 0 /\ IsNameStart(Head(t)) /\ NameRun(t, 1) = Len(t)
    THEN NameKey(LookupName(t, G, L))
    ELSE NoKey

\* The value of the subscript text between [ and ]: an integer or string
\* literal, or a name
EvalKey(c, G, L) == KeyOf(Strip(c), LiteralOf(Strip(c)), G, L)

RECURSIVE EvalTrailers(_, _, _, _, _)
\* Go on with the trailers at position i when the value r so far was found
EvalNext(src, i, r, G, L) ==
    IF r.ok THEN EvalTrailers(src, i, r.val, G, L) ELSE NotFound

\* cur.name, then the trailers from position i on
EvalAttribute(src, i, name, cur, G, L) ==
    IF name = "" \/ ~IsNameStart(Head(name)) \/ name \in PyKeywords \/ name = "None"
    THEN NotFound
    ELSE EvalNext(src, i, GetAttr(cur, name), G, L)

\* cur[key], then the trailers from position i on
EvalSubscript(src, i, key, cur, G, L) ==
    IF key.ok THEN EvalNext(src, i, GetItem(cur, key.key), G, L) ELSE NotFound

\* The trailer that starts at position j of src, a name starting at a and a
\* closing bracket being at k (0: there is none)
EvalTrailerAt(src, j, a, k, cur, G, L) ==
    IF j > Len(src) THEN Found(cur)
    ELSE IF Ch(src, j) = "."
    THEN EvalAttribute(src, a + NameRun(src, a),
                       Slice(src, a, a + NameRun(src, a) - 1), cur, G, L)
    ELSE IF Ch(src, j) = "[" /\ k # 0
    THEN EvalSubscript(src, k + 1, EvalKey(Slice(src, j + 1, k - 1), G, L), cur, G, L)
    ELSE NotFound

\* The trailer that starts at position j of src
EvalTrailer(src, j, cur, G, L) ==
    EvalTrailerAt(src, j, j + 1 + InlineSpaceRun(src, j + 1),
                  FirstOf({k \in (j + 1)..Len(src) : Ch(src, k) = "]"}), cur, G, L)

\* Evaluate the trailers of src from position i on, cur being the value so far
EvalTrailers(src, i, cur, G, L) ==
    EvalTrailer(src, i + InlineSpaceRun(src, i), cur, G, L)

\* eval(src, G, L) of a name followed by attribute and subscript trailers:
\* [ok, val]; ok = FALSE is any exception
Eval(src, G, L) ==
    IF NameRun(src, 1) = 0 \/ ~IsNameStart(Head(src)) THEN NotFound
    ELSE EvalNext(src, NameRun(src, 1) + 1,
                  LookupName(Slice(src, 1, NameRun(src, 1)), G, L), G, L)

\* eval() binds __builtins__ in the globals dict it is given when the dict
\* has no such key, before it compiles the expression.
GlobalsAfterEval(G) ==
    IF "__builtins__" \in DOMAIN G THEN G ELSE G @@ ("__builtins__" :> "builtins")

\* The value eval returned, None when it raised
ValueOrNone(r) == IF r.ok THEN r.val ELSE "None"

\* DictionaryCompleter._lookup: the value, None when eval raises
Lookup(expression, G, temp_locals) ==
    ValueOrNone(Eval(Strip(expression), GlobalsAfterEval(G), temp_locals))

(***************************************************************************)
(* The escape and unescape functions that _create_path_completer_grammar   *)
(* hands to the grammar for the text of the string being completed.        *)
(***************************************************************************)
\* str.replace(old, new) for a one-character old
RECURSIVE Replace(_, _, _)
Replace(text, old, new) ==
    IF text = "" THEN ""
    ELSE (IF Head(text) = old THEN new ELSE Head(text)) \o Replace(Tail(text), old, new)

\* re.sub(r"\\(.)", r"\1", text): a backslash and the character after it
\* become that character; `.` matches no newline
RECURSIVE unwrapper(_)
unwrapper(text) ==
    IF text = "" THEN ""
    ELSE IF Head(text) = "\\" /\ Len(text) >= 2 /\ Ch(text, 2) # "\n"
    THEN Ch(text, 2) \o unwrapper(SubSeq(text, 3, Len(text)))
    ELSE Head(text) \o unwrapper(Tail(text))

\* A faulty single_quoted_wrapper: the quotes are escaped before the
\* backslashes, so the backslash of an escaped quote is doubled
single_quoted_wrapper_quotes_first(text) ==
    Replace(Replace(text, "'", "\\'"), "\\", "\\\\")

\* text.replace("\\", "\\\\").replace("'", "\\'")
single_quoted_wrapper(text) == Replace(Replace(text, "\\", "\\\\"), "'", "\\'")

\* text.replace("\\", "\\\\").replace('"', '\\"')
double_quoted_wrapper(text) == Replace(Replace(text, "\\", "\\\\"), "\"", "\\\"")

\* escape_funcs: var1 is the text of a single quoted string, var2 of a
\* double quoted one
EscapeFunc(var, text) ==
    IF var = "var1" THEN single_quoted_wrapper(text) ELSE double_quoted_wrapper(text)

\* unescape_funcs: both variables use unwrapper
UnescapeFunc(var, text) == unwrapper(text)

(***************************************************************************)
(* PythonCompleter._create_path_completer_grammar: the grammar that        *)
(* matches a text ending inside a string literal.  The grammar (with its   *)
(* whitespace and comments dropped) is anchored at both ends of the text   *)
(* and `.` matches every character.                                        *)
(***************************************************************************)
\* ([^q\\]|\\.)* q  from position i on: the position after the closing quote
\* q, or 0 when the string is not closed
RECURSIVE ClosedStringEnd(_, _, _)
ClosedStringEnd(t, i, q) ==
    IF i > Len(t) THEN 0
    ELSE IF Ch(t, i) = "\\"
    THEN (IF i + 1 <= Len(t) THEN ClosedStringEnd(t, i + 2, q) ELSE 0)
    ELSE IF Ch(t, i) = q THEN i + 1
    ELSE ClosedStringEnd(t, i + 1, q)

\* One item of the body of a triple quoted string at position i:
\*   [^q\\] | q(?!q) | qq(?!q) | \\.]      (single quotes)
\*   [^q\\] | q(?!q) | qq(?!^) | \\.]      (double quotes)
TripleBodySteps(t, i, q) ==
    IF i > Len(t) THEN {}
    ELSE (IF Ch(t, i) \notin {q, "\\"} THEN {i + 1} ELSE {})
         \cup (IF Ch(t, i) = q /\ Slice(t, i + 1, i + 1) # q THEN {i + 1} ELSE {})
         \cup (IF Slice(t, i, i + 1) = q \o q
                  /\ (q = "\"" \/ Slice(t, i + 2, i + 2) # q)
               THEN {i + 2} ELSE {})
         \cup (IF Ch(t, i) = "\\" /\ i + 2 <= Len(t) /\ Ch(t, i + 2) = "]"
               THEN {i + 3} ELSE {})

\* The positions the body of a triple quoted string can end before, from
\* the set S of positions reached so far, position i being the next to expand
RECURSIVE TripleBodyReach(_, _, _, _)
TripleBodyReach(t, i, q, S) ==
    IF i > Len(t) + 1 THEN S
    ELSE TripleBodyReach(t, i + 1, q,
            IF i \in S THEN S \cup TripleBodySteps(t, i, q) ELSE S)

\* \#[^\n]*(\n|$) from position i (the #) on
RECURSIVE CommentEnds(_, _)
CommentEnds(t, i) ==
    IF i > Len(t) THEN {i}
    ELSE IF Ch(t, i) = "\n" THEN {i + 1}
    ELSE CommentEnds(t, i + 1)

\* One item of "the text before the current string" at position i: the
\* positions it can end before
PrefixSteps(t, i) ==
    IF i > Len(t) THEN {}
    ELSE (IF Ch(t, i) \notin {"'", "\"", "#"} THEN {i + 1} ELSE {})
         \cup (IF Ch(t, i) \in {"'", "\""} /\ Slice(t, i, i + 2) = Ch(t, i) \o Ch(t, i) \o Ch(t, i)
               THEN {j + 3 : j \in {k \in TripleBodyReach(t, i + 3, Ch(t, i), {i + 3}) :
                                       Slice(t, k, k + 2) = Slice(t, i, i + 2)}}
               ELSE {})
         \cup (IF Ch(t, i) = "#" THEN CommentEnds(t, i + 1) ELSE {})
         \cup (IF Ch(t, i) \in {"'", "\""} /\ Slice(t, i + 1, i + 2) # Ch(t, i) \o Ch(t, i)
               THEN {ClosedStringEnd(t, i + 1, Ch(t, i))} \ {0} ELSE {})

RECURSIVE PrefixReach(_, _, _)
PrefixReach(t, i, S) ==
    IF i > Len(t) THEN S
    ELSE PrefixReach(t, i + 1, IF i \in S THEN S \cup PrefixSteps(t, i) ELSE S)

\* ([^\nq\\]|\\.)* from position i up to position n
RECURSIVE OpenStringOK(_, _, _, _)
OpenStringOK(t, i, n, q) ==
    IF i > n THEN i = n + 1
    ELSE IF Ch(t, i) = "\\" THEN i + 1 <= n /\ OpenStringOK(t, i + 2, n, q)
    ELSE IF Ch(t, i) \in {"\n", q} THEN FALSE
    ELSE OpenStringOK(t, i + 1, n, q)

\* _path_completer_grammar.match(text) is not None; $ matches at the end of
\* the text and before a newline that ends it.
GrammarMatch(t) ==
    \E i \in PrefixReach(t, 1, {1}) :
        /\ i <= Len(t)
        /\ Ch(t, i) \in {"'", "\""}
        /\ \E n \in {Len(t)} \cup (IF Slice(t, Len(t), Len(t)) = "\n"
                                   THEN {Len(t) - 1} ELSE {}) :
              n >= i /\ OpenStringOK(t, i + 1, n, Ch(t, i))

(***************************************************************************)
(* Documents, completions and the collaborators                            *)
(***************************************************************************)
Doc(text) == [text |-> text, cursor_position |-> Len(text)]
DocAt(text, cursor) == [text |-> text, cursor_position |-> cursor]

\* Document.text_before_cursor, Document.char_before_cursor
TextBeforeCursor(doc) == Slice(doc.text, 1, doc.cursor_position)
CharBeforeCursor(doc) == Slice(doc.text, doc.cursor_position, doc.cursor_position)

\* prompt_toolkit's Completion(text, start_position, display, display_meta,
\* style); display defaults to text, display_meta and style to nothing
Completion(text, start_position, display, display_meta, style) ==
    [text |-> text, start_position |-> start_position, display |-> display,
     display_meta |-> display_meta, style |-> style]

\* The documents of the model
Documents ==
    { Doc(""), Doc("xs"), Doc("o"), Doc("zero"), Doc("falsy"), Doc("undefined"),
      Doc("d["), Doc("d['a"), Doc("d[\"b"), Doc("d[b"), Doc("d[1"), Doc("dempty[1"),
      Doc("dn[1"), Doc("dn['1"), Doc("dn["),
      Doc("dv["), Doc("dk[a"), Doc("dkbad["), Doc("dkbad[x."),
      Doc("xs["), Doc("xs[1"), Doc("xs[a"), Doc("xs[ 2"), Doc("l12[1"), Doc("lbad["),
      Doc("big[99"), Doc("big[1000"), Doc("tp[0]["), Doc("nested[0]["),
      Doc("o."), Doc("o._"), Doc("o.__"), Doc("o.foo"), Doc("o.Z"), Doc("o.fo\n"),
      Doc("undefined."), Doc("xs.so"), Doc("zero.re"),
      Doc("for x in xs:\nx."), Doc("for x in xs :\n    x.re"), Doc("for x in xs:\nx"),
      Doc("for row in nested:\nfor y in row:\ny."), Doc("for o in d:\no."),
      Doc("for x in empty:\nx."), Doc("for v in tp: v["), Doc("for x in undefined:\nx."),
      Doc("'abc"), Doc("open('/et"), Doc("x = \"a."), Doc("'''doc''' + 'x"),
      Doc("# 'a"), Doc("pri"), Doc("len("), Doc("x = "), Doc("s = 'a' + b"),
      DocAt("xs[1]", 4), DocAt("'ab' + c", 3) }

\* One environment provider: the mappings get_globals() and get_locals()
\* return.  A shell started on a fresh namespace has no __builtins__ key.
EmptyEnv == [n \in {} |-> "None"]

SessionNames ==
    [ xs |-> "xs", d |-> "d", dn |-> "dn", dv |-> "dv", dk |-> "dk",
      dkbad |-> "dkbad", dempty |-> "dempty", o |-> "o", falsy |-> "falsy",
      zero |-> "i0", l12 |-> "l12", lbad |-> "lbad", big |-> "big",
      nested |-> "nested", empty |-> "empty", tp |-> "tp" ]

Environments ==
    { [globals |-> SessionNames, locals |-> EmptyEnv],
      [globals |-> ("__builtins__" :> "builtins") @@ ("xs" :> "d") @@ SessionNames,
       locals |-> ("xs" :> "xs") @@ ("x" :> "o")] }

\* Results the path completer may return for a text inside a string
PathCandidates ==
    { <<>>, <<Completion("etc/", 0, "etc/", "", "")>> }

\* What the oracle does with a request: no script, a fault when queried, a
\* fault while its results are consumed, or results
JediBehaviours == {"no_script", "query_fails", "result_fails", "completes"}

\* The oracle's results: (name_with_symbols, complete)
JediResults ==
    << [name_with_symbols |-> "print", complete |-> "nt"],
       [name_with_symbols |-> "pass", complete |-> "ss"],
       [name_with_symbols |-> "xs", complete |-> ""] >>

BuiltinNames == {"len", "print", "open"}

\* _get_style_for_name
GetStyleForName(name) ==
    IF name \in BuiltinNames THEN "class:completion.builtin"
    ELSE IF name \in PyKeywords THEN "class:completion.keyword"
    ELSE ""

\* The number of completion requests of one behaviour
MaxRequests == 2

(***************************************************************************)
(* DictionaryCompleter: the three structural generators                    *)
(***************************************************************************)
\* The cap of _get_item_lookup_completions on the indexes it offers
MaxIndexCompletions == 1000

\* DictionaryCompleter._do_repr: str(repr(obj)), or ReprFailedError
DoRepr(obj) == ReprOf(obj)

\* A faulty BindFirstItem: the name is bound to the last item
BindLastItem(varname, expression_val, temp_locals) ==
    IF IsListOrTuple(expression_val) /\ Truthy(expression_val)
    THEN (varname :> Heap[expression_val].items[Length(expression_val)]) @@ temp_locals
    ELSE temp_locals

\* `if isinstance(expression_val, (list, tuple)) and expression_val:
\*      temp_locals[varname] = expression_val[0]`
BindFirstItem(varname, expression_val, temp_locals) ==
    IF IsListOrTuple(expression_val) /\ Truthy(expression_val)
    THEN (varname :> Heap[expression_val].items[1]) @@ temp_locals
    ELSE temp_locals

\* One for-loop of the text: bind varname to the first item when the
\* expression evaluates to a non-empty list or tuple
BindLoopVariable(m, G, temp_locals) ==
    BindFirstItem(m.varname, Lookup(m.expression, G, temp_locals), temp_locals)

\* The loop over for_loop_pattern.finditer(...) of get_completions, from the
\* i-th match on
RECURSIVE BindLoopVariables(_, _, _, _)
BindLoopVariables(matches, i, G, temp_locals) ==
    IF i > Len(matches) THEN temp_locals
    ELSE BindLoopVariables(matches, i + 1, G,
                           BindLoopVariable(matches[i], G, temp_locals))

\* `if isinstance(result, (list, tuple, dict)): yield Completion("[", 0)
\*  elif result: yield Completion(".", 0)`
TriggerCompletions(result) ==
    IF Kind(result) \in {"list", "tuple", "dict"}
    THEN <<Completion("[", 0, "[", "", "")>>
    ELSE IF Truthy(result) THEN <<Completion(".", 0, ".", "", "")>>
    ELSE <<>>

\* The candidates of _get_expression_completions for a match
ExpressionCompletionsFor(match, G, temp_locals) ==
    IF match.matched
    THEN TriggerCompletions(Lookup(match.object_var, G, temp_locals))
    ELSE <<>>

\* DictionaryCompleter._get_expression_completions
ExpressionCompletions(t, G, temp_locals) ==
    ExpressionCompletionsFor(ExpressionMatch(t), G, temp_locals)

\* The first of the three values that literal_eval accepted, else the text
\* of key
FirstAccepted(a, b, c, key) ==
    IF a.ok THEN a ELSE IF b.ok THEN b ELSE IF c.ok THEN c
    ELSE [ok |-> FALSE, isstr |-> TRUE, s |-> key]

\* The key to compare with: the first of key, key + '"', key + "'" that
\* ast.literal_eval accepts, else the text of key itself
ParsedKey(key) ==
    FirstAccepted(LiteralEval(key), LiteralEval(key \o "\""),
                  LiteralEval(key \o "'"), key)

\* The completion of one key or index
ItemCompletion(k_repr, key, meta) ==
    Completion(k_repr \o "]", 0 - Len(key), "[" \o k_repr \o "]", meta, "")

\* `try: k_repr = self._do_repr(k); yield Completion(...,
\*      display_meta=self._do_repr(result[k])) except ReprFailedError: pass`
TryItemCompletion(k_repr, meta, key) ==
    IF k_repr.ok /\ meta.ok THEN <<ItemCompletion(k_repr.s, key, meta.s)>> ELSE <<>>

NoCompletions == [out |-> <<>>, raised |-> ""]
Raise(exception) == [out |-> <<>>, raised |-> exception]

\* One turn of `for k in result: if str(k).startswith(key_obj): ...`; str(k)
\* and str.startswith(key_obj) are outside the try.
DictKeyTurn(k_str, key_obj, completion, rest) ==
    IF ~k_str.ok THEN Raise("Exception")
    ELSE IF ~key_obj.isstr THEN Raise("TypeError")
    ELSE IF StartsWith(k_str.s, key_obj.s)
    THEN [out |-> completion \o rest.out, raised |-> rest.raised]
    ELSE rest

\* `for k in result:` of the dict branch, from the i-th item on:
\* [out, raised]
RECURSIVE DictKeyCompletions(_, _, _, _)
DictKeyCompletions(items, i, key, key_obj) ==
    IF i > Len(items) THEN NoCompletions
    ELSE DictKeyTurn(StrOf(items[i][1]), key_obj,
                     TryItemCompletion(DoRepr(items[i][1]), DoRepr(items[i][2]), key),
                     DictKeyCompletions(items, i + 1, key, key_obj))

\* The completions of the indexes kept, in order
IndexCompletionsOf(kept, result, key) ==
    [j \in 1..Len(kept) |->
        ItemCompletion(DecStr(kept[j]), key, DoRepr(Heap[result].items[kept[j] + 1]).s)]

\* A faulty IndexCompletions: `for k in range(len(result)):`, without the
\* cap
UncappedIndexCompletions(result, key) ==
    IF key = "" \/ IsDigitStr(key)
    THEN IndexCompletionsOf(
            SelectSeq([i \in 1..Length(result) |-> i - 1],
                      LAMBDA k : StartsWith(DecStr(k), key)
                                 /\ DoRepr(Heap[result].items[k + 1]).ok),
            result, key)
    ELSE <<>>

\* `for k in range(min(len(result), 1000)):` of the list / tuple branch
IndexCompletions(result, key) ==
    IF key = "" \/ IsDigitStr(key)
    THEN IndexCompletionsOf(
            SelectSeq([i \in 1..Min(Length(result), MaxIndexCompletions) |-> i - 1],
                      LAMBDA k : StartsWith(DecStr(k), key)
                                 /\ DoRepr(Heap[result].items[k + 1]).ok),
            result, key)
    ELSE <<>>

\* The candidates of _get_item_lookup_completions for the looked up object
ItemLookupCompletionsOf(result, key) ==
    IF Kind(result) = "dict"
    THEN DictKeyCompletions(Heap[result].items, 1, key, ParsedKey(key))
    ELSE IF IsListOrTuple(result)
    THEN [out |-> IndexCompletions(result, key), raised |-> ""]
    ELSE NoCompletions

\* The candidates of _get_item_lookup_completions for a match
ItemLookupCompletionsFor(match, G, temp_locals) ==
    IF match.matched
    THEN ItemLookupCompletionsOf(Lookup(match.object_var, G, temp_locals), match.key)
    ELSE NoCompletions

\* DictionaryCompleter._get_item_lookup_completions: [out, raised]
ItemLookupCompletions(t, G, temp_locals) ==
    ItemLookupCompletionsFor(ItemLookupMatch(t), G, temp_locals)

\* A faulty sort_key: the names are not grouped by their leading underscores
UngroupedSortKey(name) == <<0, name>>

\* sort_key of _sort_attribute_names
SortKey(name) ==
    IF StartsWith(name, "__") THEN <<2, name>>
    ELSE IF StartsWith(name, "_") THEN <<1, name>>
    ELSE <<0, name>>

\* tuple comparison of two sort keys
SortKeyLess(a, b) == a[1] < b[1] \/ (a[1] = b[1] /\ StrLess(a[2], b[2]))

\* DictionaryCompleter._sort_attribute_names: sorted(names, key=sort_key)
RECURSIVE SortAttributeNames(_)
SortedFrom(first, names) == <<first>> \o SortAttributeNames(names \ {first})

SortAttributeNames(names) ==
    IF names = {} THEN <<>>
    ELSE SortedFrom(CHOOSE x \in names :
                       \A y \in names \ {x} : SortKeyLess(SortKey(x), SortKey(y)),
                    names)

\* `yield Completion(name, -len(attr_name))` for the names kept
NameCompletions(kept, attr_name) ==
    [j \in 1..Len(kept) |-> Completion(kept[j], 0 - Len(attr_name), kept[j], "", "")]

\* The candidates of _get_attribute_completions for a match
AttributeCompletionsFor(match, G, temp_locals) ==
    IF match.matched
    THEN NameCompletions(
            SelectSeq(SortAttributeNames(DirNames(Lookup(match.object_var, G, temp_locals))),
                      LAMBDA name : StartsWith(name, match.key)),
            match.key)
    ELSE <<>>

\* DictionaryCompleter._get_attribute_completions
AttributeCompletions(t, G, temp_locals) ==
    AttributeCompletionsFor(AttributeLookupMatch(t), G, temp_locals)

\* The mapping get_globals() returns once _lookup has been called on it
GlobalsAfterLookup(called, G) == IF called THEN GlobalsAfterEval(G) ELSE G

\* `c.text not in "[."` of PythonCompleter.get_completions
IsDictCompletion(c) == ~IsSubstring(c.text, "[.")

\* PythonCompleter._complete_path_while_typing
CompletePathWhileTyping(doc) ==
    /\ doc.text # ""
    /\ (IsAlnum(CharBeforeCursor(doc)) \/ IsSubstring(CharBeforeCursor(doc), "/.~"))

\* PythonCompleter._complete_python_while_typing
CompletePythonWhileTyping(doc) ==
    /\ doc.text # ""
    /\ (IsAlnum(CharBeforeCursor(doc)) \/ IsSubstring(CharBeforeCursor(doc), "_."))

(***************************************************************************)
(* One completion request after another: PythonCompleter.get_completions,  *)
(* consumed to exhaustion by its caller.                                   *)
(***************************************************************************)
VARIABLES
    globals,                      \* the mapping get_globals() returns
    locals,                       \* the mapping get_locals() returns
    document,                     \* the request's Document
    completion_requested,         \* complete_event.completion_requested
    enable_dictionary_completion, \* what get_enable_dictionary_completion() returns
    pc,                           \* where the generator stands
    temp_locals,                  \* the request's scratch copy of the locals
    has_dict_completions,
    expression_completions,       \* yielded by _get_expression_completions
    item_completions,             \* yielded by _get_item_lookup_completions
    attribute_completions,        \* yielded by _get_attribute_completions
    path_completions,             \* yielded by the path completer
    jedi_completions,             \* yielded from the oracle's results
    raised,                       \* the exception that left get_completions, or ""
    visited,                      \* the steps of get_completions this request took
    jedi_called,                  \* whether the oracle was asked for a script
    globals_before,               \* the provider's mappings when the request began
    locals_before,
    requests,                     \* requests made so far
    fragment,                     \* the text of a string, as the path completer sees it
    variable,                     \* the grammar variable of the string: var1 or var2
    escaped,                      \* the fragment escaped for its quote style
    unescaped,                    \* the escaped text unescaped again
    escape_pc                     \* how far the fragment has gone

vars ==
    <<globals, locals, document, completion_requested, enable_dictionary_completion,
      pc, temp_locals, has_dict_completions, expression_completions,
      item_completions, attribute_completions, path_completions, jedi_completions,
      raised, visited, jedi_called, globals_before, locals_before, requests,
      fragment, variable, escaped, unescaped, escape_pc>>

escape_vars == <<fragment, variable, escaped, unescaped, escape_pc>>

completer_vars ==
    <<globals, locals, document, completion_requested, enable_dictionary_completion,
      pc, temp_locals, has_dict_completions, expression_completions,
      item_completions, attribute_completions, path_completions, jedi_completions,
      raised, visited, jedi_called, globals_before, locals_before, requests>>

request_vars == <<document, completion_requested, enable_dictionary_completion,
                  globals_before, locals_before, requests>>

\* The candidates of the structural generator, in the order it yields them
DictionaryCompletions ==
    expression_completions \o item_completions \o attribute_completions

\* Everything get_completions has yielded
Yielded == DictionaryCompletions \o path_completions \o jedi_completions

\* A completer on one of the environments, before its first request
NoRequest ==
    /\ \E env \in Environments :
          /\ globals = env.globals
          /\ locals = env.locals
          /\ globals_before = env.globals
          /\ locals_before = env.locals
    /\ document = Doc("")
    /\ completion_requested = FALSE
    /\ enable_dictionary_completion = FALSE
    /\ pc = "idle"
    /\ temp_locals = EmptyEnv
    /\ has_dict_completions = FALSE
    /\ expression_completions = <<>>
    /\ item_completions = <<>>
    /\ attribute_completions = <<>>
    /\ path_completions = <<>>
    /\ jedi_completions = <<>>
    /\ raised = ""
    /\ visited = {}
    /\ jedi_called = FALSE
    /\ requests = 0

\* No fragment is being escaped
NoFragment ==
    /\ fragment = ""
    /\ variable = "var1"
    /\ escaped = ""
    /\ unescaped = ""
    /\ escape_pc = "idle"

Init == NoRequest /\ NoFragment

\* The caller starts a request: get_completions(document, complete_event)
Request ==
    /\ pc \in {"idle", "done", "raised"}
    /\ requests < MaxRequests
    /\ \E doc \in Documents, req \in BOOLEAN, enabled \in BOOLEAN :
          /\ document' = doc
          /\ completion_requested' = req
          /\ enable_dictionary_completion' = enabled
    /\ requests' = requests + 1
    /\ globals_before' = globals
    /\ locals_before' = locals
    /\ pc' = "start"
    /\ temp_locals' = EmptyEnv
    /\ has_dict_completions' = FALSE
    /\ expression_completions' = <<>>
    /\ item_completions' = <<>>
    /\ attribute_completions' = <<>>
    /\ path_completions' = <<>>
    /\ jedi_completions' = <<>>
    /\ raised' = ""
    /\ visited' = {}
    /\ jedi_called' = FALSE
    /\ UNCHANGED <<globals, locals>>
    /\ UNCHANGED escape_vars

\* `if self.get_enable_dictionary_completion():`
CheckDictionaryCompletion ==
    /\ pc = "start"
    /\ pc' = IF enable_dictionary_completion THEN "for_loops" ELSE "path"
    /\ visited' = visited \cup {"start"}
    /\ UNCHANGED <<globals, locals, temp_locals, has_dict_completions,
                   expression_completions, item_completions, attribute_completions,
                   path_completions, jedi_completions, raised, jedi_called>>
    /\ UNCHANGED request_vars
    /\ UNCHANGED escape_vars

\* Some candidate is not one of the triggers "[" and "."
HasDictCompletion(out) == \E i \in 1..Len(out) : IsDictCompletion(out[i])

\* DictionaryCompleter.get_completions up to its first yield from: the copy
\* of the locals and the for-loops
BindForLoops ==
    /\ pc = "for_loops"
    /\ temp_locals' =
          BindLoopVariables(ForLoopMatches(TextBeforeCursor(document), 1), 1,
                            globals, locals)
    /\ globals' =
          GlobalsAfterLookup(ForLoopMatches(TextBeforeCursor(document), 1) # <<>>,
                             globals)
    /\ pc' = "expression"
    /\ visited' = visited \cup {"for_loops"}
    /\ UNCHANGED <<locals, has_dict_completions, expression_completions,
                   item_completions, attribute_completions, path_completions,
                   jedi_completions, raised, jedi_called>>
    /\ UNCHANGED request_vars
    /\ UNCHANGED escape_vars

\* yield from self._get_expression_completions(...), as consumed by the loop
\* of PythonCompleter.get_completions
YieldExpressionCompletions ==
    /\ pc = "expression"
    /\ expression_completions' =
          ExpressionCompletions(TextBeforeCursor(document), globals, temp_locals)
    /\ has_dict_completions' =
          (has_dict_completions \/ HasDictCompletion(expression_completions'))
    /\ globals' =
          GlobalsAfterLookup(ExpressionMatch(TextBeforeCursor(document)).matched, globals)
    /\ pc' = "item_lookup"
    /\ visited' = visited \cup {"expression"}
    /\ UNCHANGED <<locals, temp_locals, item_completions, attribute_completions,
                   path_completions, jedi_completions, raised, jedi_called>>
    /\ UNCHANGED request_vars
    /\ UNCHANGED escape_vars

\* The candidates r.out are yielded and the exception r.raised, if any,
\* leaves the generator
YieldItemLookup(r) ==
    /\ item_completions' = r.out
    /\ raised' = r.raised
    /\ pc' = IF r.raised # "" THEN "raised" ELSE "attribute"

\* yield from self._get_item_lookup_completions(...)
YieldItemLookupCompletions ==
    /\ pc = "item_lookup"
    /\ YieldItemLookup(ItemLookupCompletions(TextBeforeCursor(document), globals,
                                             temp_locals))
    /\ has_dict_completions' =
          (has_dict_completions \/ HasDictCompletion(item_completions'))
    /\ globals' =
          GlobalsAfterLookup(ItemLookupMatch(TextBeforeCursor(document)).matched, globals)
    /\ visited' = visited \cup {"item_lookup"}
    /\ UNCHANGED <<locals, temp_locals, expression_completions, attribute_completions,
                   path_completions, jedi_completions, jedi_called>>
    /\ UNCHANGED request_vars
    /\ UNCHANGED escape_vars

\* yield from self._get_attribute_completions(...)
YieldAttributeCompletions ==
    /\ pc = "attribute"
    /\ attribute_completions' =
          AttributeCompletions(TextBeforeCursor(document), globals, temp_locals)
    /\ has_dict_completions' =
          (has_dict_completions \/ HasDictCompletion(attribute_completions'))
    /\ globals' =
          GlobalsAfterLookup(AttributeLookupMatch(TextBeforeCursor(document)).matched,
                             globals)
    /\ pc' = "has_dict"
    /\ visited' = visited \cup {"attribute"}
    /\ UNCHANGED <<locals, temp_locals, expression_completions, item_completions,
                   path_completions, jedi_completions, raised, jedi_called>>
    /\ UNCHANGED request_vars
    /\ UNCHANGED escape_vars

\* `if has_dict_completions: return`
ReturnIfDictCompletions ==
    /\ pc = "has_dict"
    /\ pc' = IF has_dict_completions THEN "done" ELSE "path"
    /\ visited' = visited \cup {"has_dict"}
    /\ UNCHANGED <<globals, locals, temp_locals, has_dict_completions,
                   expression_completions, item_completions, attribute_completions,
                   path_completions, jedi_completions, raised, jedi_called>>
    /\ UNCHANGED request_vars
    /\ UNCHANGED escape_vars

\* The path completions.  The grammar completer yields the path completer's
\* candidates when its grammar matches the text before the cursor.
YieldPathCompletions ==
    /\ pc = "path"
    /\ \E found \in PathCandidates :
          path_completions' =
              IF (completion_requested \/ CompletePathWhileTyping(document))
                 /\ GrammarMatch(TextBeforeCursor(document))
              THEN found ELSE <<>>
    /\ pc' = "inside_string"
    /\ visited' = visited \cup {"path"}
    /\ UNCHANGED <<globals, locals, temp_locals, has_dict_completions,
                   expression_completions, item_completions, attribute_completions,
                   jedi_completions, raised, jedi_called>>
    /\ UNCHANGED request_vars
    /\ UNCHANGED escape_vars

\* A faulty ReturnIfInsideString: the check is skipped and the request goes
\* on to the Jedi completions
NeverReturnInsideString ==
    /\ pc = "inside_string"
    /\ pc' = "jedi"
    /\ visited' = visited \cup {"inside_string"}
    /\ UNCHANGED <<globals, locals, temp_locals, has_dict_completions,
                   expression_completions, item_completions, attribute_completions,
                   path_completions, jedi_completions, raised, jedi_called>>
    /\ UNCHANGED request_vars
    /\ UNCHANGED escape_vars

\* `if self._path_completer_grammar.match(document.text_before_cursor): return`
ReturnIfInsideString ==
    /\ pc = "inside_string"
    /\ pc' = IF GrammarMatch(TextBeforeCursor(document)) THEN "done" ELSE "jedi"
    /\ visited' = visited \cup {"inside_string"}
    /\ UNCHANGED <<globals, locals, temp_locals, has_dict_completions,
                   expression_completions, item_completions, attribute_completions,
                   path_completions, jedi_completions, raised, jedi_called>>
    /\ UNCHANGED request_vars
    /\ UNCHANGED escape_vars

\* Completion(c.name_with_symbols, len(c.complete) - len(c.name_with_symbols), ...)
JediCompletion(c) ==
    Completion(c.name_with_symbols, Len(c.complete) - Len(c.name_with_symbols),
               c.name_with_symbols, "", GetStyleForName(c.name_with_symbols))

\* `for c in completions: yield Completion(...)`
JediCompletions == [i \in 1..Len(JediResults) |-> JediCompletion(JediResults[i])]

\* `if script: try: completions = script.completions() except ...: pass
\*  else: for c in completions: yield ...`, the oracle having been asked or not
ConsumeJedi(asked, behaviour) ==
    /\ jedi_called' = asked
    /\ jedi_completions' =
          IF ~asked \/ behaviour \in {"no_script", "query_fails"} THEN <<>>
          ELSE IF behaviour = "result_fails" THEN SubSeq(JediCompletions, 1, 1)
          ELSE JediCompletions
    /\ raised' = IF asked /\ behaviour = "result_fails" THEN "Exception" ELSE ""
    /\ pc' = IF asked /\ behaviour = "result_fails" THEN "raised" ELSE "done"

\* The Jedi completions: the script, script.completions() inside the try,
\* and the loop over the results in its else clause
YieldJediCompletions ==
    /\ pc = "jedi"
    /\ \E behaviour \in JediBehaviours :
          ConsumeJedi(completion_requested \/ CompletePythonWhileTyping(document),
                      behaviour)
    /\ visited' = visited \cup {"jedi"}
    /\ UNCHANGED <<globals, locals, temp_locals, has_dict_completions,
                   expression_completions, item_completions, attribute_completions,
                   path_completions>>
    /\ UNCHANGED request_vars
    /\ UNCHANGED escape_vars

Next ==
    \/ Request
    \/ CheckDictionaryCompletion
    \/ BindForLoops
    \/ YieldExpressionCompletions
    \/ YieldItemLookupCompletions
    \/ YieldAttributeCompletions
    \/ ReturnIfDictCompletions
    \/ YieldPathCompletions
    \/ ReturnIfInsideString
    \/ YieldJediCompletions

Spec == Init /\ [][Next]_vars

(***************************************************************************)
(* The escape functions on their own: every fragment over an alphabet that *)
(* holds the backslash, both quotes, a plain character and the newline.    *)
(***************************************************************************)
\* The longest fragment
MaxFragmentLen == 3

FragmentAlphabet == {"\\", "'", "\"", "a", "\n"}

RECURSIVE FragmentsOfLen(_)
FragmentsOfLen(n) ==
    IF n = 0 THEN {""}
    ELSE {f \o c : f \in FragmentsOfLen(n - 1), c \in FragmentAlphabet}

Fragments == UNION {FragmentsOfLen(n) : n \in 0..MaxFragmentLen}

InitEscape ==
    /\ NoRequest
    /\ fragment \in Fragments
    /\ variable \in {"var1", "var2"}
    /\ escaped = ""
    /\ unescaped = ""
    /\ escape_pc = "fragment"

\* escape_funcs[variable](fragment)
Escape ==
    /\ escape_pc = "fragment"
    /\ escaped' = EscapeFunc(variable, fragment)
    /\ escape_pc' = "escaped"
    /\ UNCHANGED <<fragment, variable, unescaped>>
    /\ UNCHANGED completer_vars

\* unescape_funcs[variable](escaped)
Unescape ==
    /\ escape_pc = "escaped"
    /\ unescaped' = UnescapeFunc(variable, escaped)
    /\ escape_pc' = "unescaped"
    /\ UNCHANGED <<fragment, variable, escaped>>
    /\ UNCHANGED completer_vars

NextEscape ==
    \/ Escape
    \/ Unescape

SpecEscape == InitEscape /\ [][NextEscape]_vars

(***************************************************************************)
(* Properties of one request after another (Spec)                          *)
(***************************************************************************)
\* The text the request completes
Text == TextBeforeCursor(document)

\* get_completions has returned, or an exception has left it
Ended == pc \in {"done", "raised"}

\* The step of get_completions has been taken in this request
Acted(step) == step \in visited

\* eval() of the matched expression raises
LookupFails(object_var) ==
    ~Eval(Strip(object_var), GlobalsAfterEval(globals), temp_locals).ok

\* The insert texts of a sequence of candidates
Texts(out) == [j \in 1..Len(out) |-> out[j].text]

\* C1: for every request, if structural completion is enabled and the
\* structural generator yields a candidate other than the triggers "[" and
\* ".", the request ends after the structural candidates and neither the
\* path completer nor the oracle contributes; if it yields only triggers or
\* nothing, the path phase and the oracle phase (its inside-string gate) are
\* still reached.
C1_StructuralGating ==
    Ended =>
        IF enable_dictionary_completion /\ HasDictCompletion(DictionaryCompletions)
        THEN /\ path_completions = <<>>
             /\ jedi_completions = <<>>
             /\ ~Acted("path")
             /\ ~Acted("jedi")
        ELSE /\ Acted("path")
             /\ Acted("inside_string")

\* C2: whenever the grammar matches the text before the cursor (the cursor
\* is inside a string literal), the oracle has not been invoked and no oracle
\* candidate has been yielded, whatever completion_requested and the
\* character before the cursor are.
C2_NoOracleInsideString ==
    GrammarMatch(Text) =>
        /\ ~jedi_called
        /\ jedi_completions = <<>>
        /\ ~Acted("jedi")

\* C2 witness: an explicitly requested completion inside a string that ends
\* with a character that starts the oracle while typing has returned after
\* the inside-string check
C2_Witness ==
    /\ pc = "done"
    /\ document = Doc("x = \"a.")
    /\ completion_requested
    /\ CompletePythonWhileTyping(document)
    /\ GrammarMatch(Text)
    /\ Acted("inside_string")
    /\ ~jedi_called

\* C3: when evaluating the matched expression fails, the trigger, the
\* item-lookup and the attribute-lookup paths each yield no candidate, and
\* the paths after the failing one are still attempted.
C3_FailedLookupYieldsNothing ==
    /\ (Acted("expression") /\ ExpressionMatch(Text).matched
        /\ LookupFails(ExpressionMatch(Text).object_var))
       => (expression_completions = <<>> /\ (Ended => Acted("item_lookup")))
    /\ (Acted("item_lookup") /\ ItemLookupMatch(Text).matched
        /\ LookupFails(ItemLookupMatch(Text).object_var))
       => (item_completions = <<>> /\ (Ended => Acted("attribute")))
    /\ (Acted("attribute") /\ AttributeLookupMatch(Text).matched
        /\ LookupFails(AttributeLookupMatch(Text).object_var))
       => attribute_completions = <<>>

\* C4: consuming get_completions to exhaustion never raises an error to the
\* caller, whatever the document, the environment and the collaborators do.
C4_NeverRaises == pc # "raised" /\ raised = ""

\* C5: after a request, the mappings the environment provider returns hold
\* exactly the bindings they held before the request.
C5_ProviderUnchanged ==
    Ended => (globals = globals_before /\ locals = locals_before)

\* The scratch environment after the first k for-loops of the text: the
\* k-th expression is resolved against the scratch environment after the
\* first k - 1, and its name is bound to the first element exactly when the
\* value is a non-empty list or tuple.
RECURSIVE ScratchAfter(_, _)
ScratchAfter(matches, k) ==
    IF k = 0 THEN locals
    ELSE LET before == ScratchAfter(matches, k - 1)
             value == Lookup(matches[k].expression, globals, before)
         IN  IF Kind(value) \in {"list", "tuple"} /\ Length(value) >= 1
             THEN [n \in DOMAIN before \cup {matches[k].varname} |->
                      IF n = matches[k].varname THEN Heap[value].items[1]
                      ELSE before[n]]
             ELSE before

\* C6: the binder takes the for-loops of the text in text order, resolves
\* each expression against the globals and the scratch environment as it
\* stands after the earlier loops, binds the name to the first element
\* exactly when the value is a non-empty list or tuple, and the structural
\* completions that follow resolve names against that scratch environment:
\* with xs = [10, 20, 30], `for x in xs:` then `x.` completes the attributes
\* of 10, and a later loop iterates over an earlier loop's variable.
C6_LoopVariableBinder ==
    /\ Acted("for_loops") =>
          temp_locals = ScratchAfter(ForLoopMatches(Text, 1), Len(ForLoopMatches(Text, 1)))
    /\ Acted("expression") =>
          expression_completions = ExpressionCompletions(Text, globals, temp_locals)
    /\ Acted("attribute") =>
          attribute_completions = AttributeCompletions(Text, globals, temp_locals)
    /\ (Acted("attribute") /\ document = Doc("for x in xs:\nx.")) =>
          /\ temp_locals["x"] = "i10"
          /\ Texts(attribute_completions) =
                <<"bit_length", "imag", "real", "__abs__", "__class__">>
    /\ (Acted("for_loops") /\ document = Doc("for row in nested:\nfor y in row:\ny.")) =>
          /\ temp_locals["row"] = "xs"
          /\ temp_locals["y"] = "i10"
    /\ (Acted("for_loops") /\ document = Doc("for x in empty:\nx.")) =>
          temp_locals = locals

\* C6 witness: the second loop of the text iterated over the variable of the
\* first, and the attributes offered are those of 10
C6_Witness ==
    /\ pc = "done"
    /\ document = Doc("for row in nested:\nfor y in row:\ny.")
    /\ "y" \notin DOMAIN locals
    /\ {"row", "y"} \subseteq DOMAIN temp_locals
    /\ temp_locals["row"] = "xs"
    /\ temp_locals["y"] = "i10"
    /\ Texts(attribute_completions) = <<"bit_length", "imag", "real", "__abs__", "__class__">>

\* The candidate the claim describes for one key or index
Describes(c, k_repr, frag, meta) ==
    /\ c.text = k_repr \o "]"
    /\ c.start_position = 0 - Len(frag)
    /\ c.display_meta = meta

\* The candidates a mapping should give from its i-th item on: one per key
\* whose string form starts with the parsed partial and whose key and value
\* representations both succeed, in iteration order
RECURSIVE DescribedKeyTexts(_, _, _)
DescribedKeyTexts(items, i, frag) ==
    IF i > Len(items) THEN <<>>
    ELSE (IF /\ StrOf(items[i][1]).ok
             /\ StartsWith(StrOf(items[i][1]).s, ParsedKey(frag).s)
             /\ ReprOf(items[i][1]).ok
             /\ ReprOf(items[i][2]).ok
          THEN << <<ReprOf(items[i][1]).s \o "]", 0 - Len(frag), ReprOf(items[i][2]).s>> >>
          ELSE <<>>)
         \o DescribedKeyTexts(items, i + 1, frag)

\* C7: on an item-lookup match whose expression resolves to a mapping, the
\* candidates are exactly one per key whose string form starts with the
\* parsed partial and whose key and value representations both succeed, in
\* iteration order, each with insert text repr(key) + "]", start offset
\* -len(frag) and display meta repr(value); a key whose representation fails
\* is skipped without suppressing the candidates of the other keys.
C7_MappingKeys ==
    (/\ Acted("item_lookup")
     /\ ItemLookupMatch(Text).matched
     /\ Kind(Lookup(ItemLookupMatch(Text).object_var, globals, temp_locals)) = "dict")
    => [j \in 1..Len(item_completions) |->
           <<item_completions[j].text, item_completions[j].start_position,
             item_completions[j].display_meta>>]
       = DescribedKeyTexts(
            Heap[Lookup(ItemLookupMatch(Text).object_var, globals, temp_locals)].items,
            1, ItemLookupMatch(Text).key)

\* The index a candidate "i]" stands for
IndexOf(c) == DecVal(SubSeq(c.text, 1, Len(c.text) - 1))

\* The indices 0 .. min(n, 1000) - 1 whose decimal form starts with frag,
\* none unless frag is empty or all digits
FragmentIndices(result, frag) ==
    IF frag = "" \/ IsDigitStr(frag)
    THEN {i \in 0..(Min(Length(result), 1000) - 1) : StartsWith(DecStr(i), frag)}
    ELSE {}

\* out is exactly the candidates of the indices I, in ascending order
IsIndexCandidates(out, I, result, frag) ==
    /\ Len(out) = Cardinality(I)
    /\ \A j \in 1..Len(out) :
          \E i \in I : Describes(out[j], DecStr(i), frag,
                                 ReprOf(Heap[result].items[i + 1]).s)
    /\ \A j \in 1..(Len(out) - 1) : IndexOf(out[j]) < IndexOf(out[j + 1])

\* The request has taken the item-lookup step on a match whose expression
\* resolves to a list or tuple
IndexLookupActed ==
    /\ Acted("item_lookup")
    /\ ItemLookupMatch(Text).matched
    /\ IsListOrTuple(Lookup(ItemLookupMatch(Text).object_var, globals, temp_locals))

\* C8 as stated: on an item-lookup match whose expression resolves to a
\* list or tuple of length n, the candidates are exactly the indices in
\* 0 .. min(n, 1000) - 1 whose decimal form starts with frag (frag empty or all
\* digits), ascending, each with insert text str(i) + "]", start offset
\* -len(frag) and display meta repr of element i; none for any other frag.
C8_IndexCandidatesAsStated ==
    IndexLookupActed =>
        IsIndexCandidates(
            item_completions,
            FragmentIndices(Lookup(ItemLookupMatch(Text).object_var, globals, temp_locals),
                            ItemLookupMatch(Text).key),
            Lookup(ItemLookupMatch(Text).object_var, globals, temp_locals),
            ItemLookupMatch(Text).key)

\* The indices among I whose element has a representation
Representable(I, result) == {i \in I : ReprOf(Heap[result].items[i + 1]).ok}

\* C8 (amended): the candidates are exactly the indices in
\* 0 .. min(n, 1000) - 1 whose decimal form starts with frag and whose
\* element's representation succeeds, ascending, each with insert text
\* str(i) + "]", start offset -len(frag) and display meta repr of element i;
\* none when frag is neither empty nor all digits.
C8_IndexCandidates ==
    IndexLookupActed =>
        IsIndexCandidates(
            item_completions,
            Representable(
                FragmentIndices(Lookup(ItemLookupMatch(Text).object_var, globals, temp_locals),
                                ItemLookupMatch(Text).key),
                Lookup(ItemLookupMatch(Text).object_var, globals, temp_locals)),
            Lookup(ItemLookupMatch(Text).object_var, globals, temp_locals),
            ItemLookupMatch(Text).key)

\* C8 witness: `xs[1` with xs = [10, 20, 30] has yielded exactly the
\* candidate of index 1
C8_Witness ==
    /\ document = Doc("xs[1")
    /\ locals = EmptyEnv
    /\ Acted("item_lookup")
    /\ Len(item_completions) = 1
    /\ Describes(item_completions[1], "1", "1", "20")

\* 0, 1 or 2: no, a single or a double leading underscore
LeadingUnderscores(name) ==
    IF StartsWith(name, "__") THEN 2 ELSE IF StartsWith(name, "_") THEN 1 ELSE 0

\* names is in the order of the claim: by leading underscores, then by
\* string order, with no name twice
InAttributeOrder(names) ==
    \A j \in 1..(Len(names) - 1) :
        \/ LeadingUnderscores(names[j]) < LeadingUnderscores(names[j + 1])
        \/ /\ LeadingUnderscores(names[j]) = LeadingUnderscores(names[j + 1])
           /\ StrLess(names[j], names[j + 1])

\* out is exactly the candidates of the names of members that start with
\* frag
IsAttributeCandidates(out, members, frag) ==
    /\ {out[j].text : j \in 1..Len(out)} = {n \in members : StartsWith(n, frag)}
    /\ \A j \in 1..Len(out) : out[j].start_position = 0 - Len(frag)
    /\ InAttributeOrder(Texts(out))

\* C9: on an attribute-lookup match with fragment frag, the candidates are
\* exactly the member names of the resolved value that start with frag, each
\* replacing the fragment, names with no leading underscore first, then the
\* names with a single leading underscore, then those with a double one, each
\* group in string order (for an object exposing foo, _bar, __baz__ and Zed:
\* Zed, foo, _bar, __baz__).
C9_AttributeOrder ==
    /\ (Acted("attribute") /\ AttributeLookupMatch(Text).matched) =>
          IsAttributeCandidates(
              attribute_completions,
              DirNames(Lookup(AttributeLookupMatch(Text).object_var, globals, temp_locals)),
              AttributeLookupMatch(Text).key)
    /\ (Acted("attribute") /\ document = Doc("o.")) =>
          Texts(attribute_completions) = <<"Zed", "foo", "_bar", "__baz__">>
    /\ (Acted("attribute") /\ document = Doc("o._")) =>
          Texts(attribute_completions) = <<"_bar", "__baz__">>

\* C9 witness: the attributes of the object exposing foo, _bar, __baz__ and
\* Zed have been yielded for the empty fragment
C9_Witness ==
    /\ document = Doc("o.")
    /\ Acted("attribute")
    /\ Len(attribute_completions) = 4
    /\ attribute_completions[2] = Completion("foo", 0, "foo", "", "")
    /\ attribute_completions[4] = Completion("__baz__", 0, "__baz__", "", "")

(***************************************************************************)
(* Properties of the escape functions (SpecEscape)                         *)
(***************************************************************************)
\* C10: for every fragment and each quote style, escaping the fragment with
\* the style's escape function and unescaping the result gives the fragment
\* back.
C10_EscapeRoundTrip == escape_pc = "unescaped" => unescaped = fragment

\* C10 witness: a single quoted fragment holding a backslash and the quote
\* has been escaped, each of the two preceded by a backslash, and unescaped
\* again
C10_Witness ==
    /\ escape_pc = "unescaped"
    /\ variable = "var1"
    /\ fragment = "\\'a"
    /\ escaped = "\\\\\\'a"
    /\ unescaped = "\\'a"

====
